---- MODULE Spec2Model ----
(***************************************************************************)
(* Verification model of the knowledge-base chatbot's ingestion core:      *)
(*   - app/rag.py   clean_text, split_text, ingest_folder                  *)
(*   - app/main.py  the disk-persisted job store, the upload handler, the  *)
(*                  background worker _ingest_job and the status handler   *)
(*   - app/rag.py   parse_pdf with its OCR fallback                        *)
(*   - app/ingest.py save_and_ingest_uploads, run by two jobs              *)
(* Strings are sequences of one-character strings.                         *)
(***************************************************************************)
EXTENDS Integers, Sequences, FiniteSets, TLC

VARIABLES
    text,       \* split_text: the input text
    max_len,    \* split_text: the max_len argument
    overlap,    \* split_text: the overlap argument
    chunks,     \* split_text: the returned list of chunks
    cpc,        \* split_text: "input" before the call, "done" after it
    dirExists,  \* ingest_folder: os.path.isdir(data_dir)
    dataDir,    \* ingest_folder: file name -> what its parser does with it
    pending,    \* ingest_folder: the names os.listdir has yet to yield
    col,        \* ingest_folder: the documents added to the index, in order
    added,      \* ingest_folder: the local counter added
    ipc,        \* ingest_folder: "call", "loop", "returned" or "raised"
    now,        \* job store: int(time.time())
    path,       \* job store: the file <job_id>.json
    tmp,        \* job store: the file <job_id>.json.tmp
    fd,         \* job store: the file each thread's open handle refers to
    upResp,     \* ingest_upload: the response sent, "none" before the call
    wpc,        \* _ingest_job: the statement the worker thread is at
    wsv,        \* _ingest_job: the _job_save call in progress
    wloc,       \* _ingest_job: locals, and the job's temporary directory
    rd,         \* ingest_status: per request thread, its position and locals
    killed,     \* whether the server process has been killed and restarted
    uploads,    \* two jobs: per job, the files it was given (name -> content)
    sdir,       \* two jobs: the directory DATA_DIR (name -> content)
    spc,        \* two jobs: per job, its position in save_and_ingest_uploads
    stodo,      \* two jobs: per job, the names its current loop has yet to visit
    shanded,    \* two jobs: per job, the documents it has added to the index
    sadded,     \* two jobs: per job, the counter added of its ingest_folder call
    pdf,        \* parse_pdf: the pages of the document, what the libraries do
    pidx,       \* parse_pdf: the loop variable i
    pout,       \* parse_pdf: the list out
    pocr,       \* parse_pdf: the page indexes ocr_pdf_page was called with
    ppc         \* parse_pdf: "call", "loop", "returned" or "raised"

chunkVars == <<text, max_len, overlap, chunks, cpc>>

ingestVars == <<dirExists, dataDir, pending, col, added, ipc>>

jobVars == <<now, path, tmp, fd, upResp, wpc, wsv, wloc, rd, killed>>

shareVars == <<uploads, sdir, spc, stodo, shanded, sadded>>

pdfVars == <<pdf, pidx, pout, pocr, ppc>>

vars == <<text, max_len, overlap, chunks, cpc,
          dirExists, dataDir, pending, col, added, ipc,
          now, path, tmp, fd, upResp, wpc, wsv, wloc, rd, killed,
          uploads, sdir, spc, stodo, shanded, sadded,
          pdf, pidx, pout, pocr, ppc>>

(***************************************************************************)
(* Bounds of the exhaustive chunker specification.                         *)
(***************************************************************************)
MaxTextLen == 6

Alphabet == {"a", ".", " ", "\n"}

MaxLenArgs == {2, 4}

OverlapArgs == {0, 1, 3}

(***************************************************************************)
(* Text utilities (app/rag.py)                                             *)
(***************************************************************************)
\* the characters the regular expression class \s matches
IsWs(c) == c \in {" ", "\n", "\t", "\r"}

\* the characters of the class [.!?]
IsTerm(c) == c \in {".", "!", "?"}

\* str.startswith / str.endswith
IsPrefix(p, s) == Len(p) <= Len(s) /\ SubSeq(s, 1, Len(p)) = p

IsSuffix(p, s) == Len(p) <= Len(s) /\ SubSeq(s, Len(s) - Len(p) + 1, Len(s)) = p

MinOf(S) == CHOOSE x \in S : \A y \in S : x <= y

MaxOf(S) == CHOOSE x \in S : \A y \in S : y <= x

\* index of the last character of the whitespace run that starts at i
WsRunEnd(t, i) ==
    MinOf({j \in i..Len(t) : j = Len(t) \/ ~IsWs(t[j + 1])})

\* str.strip(): drop leading and trailing whitespace
LStrip(t) ==
    LET solid == {i \in 1..Len(t) : ~IsWs(t[i])}
    IN  IF solid = {} THEN <<>> ELSE SubSeq(t, MinOf(solid), Len(t))

RStrip(t) ==
    LET solid == {i \in 1..Len(t) : ~IsWs(t[i])}
    IN  IF solid = {} THEN <<>> ELSE SubSeq(t, 1, MaxOf(solid))

Strip(t) == RStrip(LStrip(t))

\* re.sub(r'\s+', ' ', t): every whitespace run becomes one space, that is,
\* a whitespace character is kept (as a space) only when it starts a run
CollapseWs(t) ==
    LET StartsRunOrSolid(i) == ~IsWs(t[i]) \/ i = 1 \/ ~IsWs(t[i - 1])
        kept == SelectSeq([i \in 1..Len(t) |-> i], StartsRunOrSolid)
    IN  [k \in 1..Len(kept) |-> IF IsWs(t[kept[k]]) THEN " " ELSE t[kept[k]]]

clean_text(t) == Strip(CollapseWs(t))

\* ' '.join(buf)
RECURSIVE Join(_)
Join(buf) ==
    IF buf = <<>> THEN <<>>
    ELSE IF Len(buf) = 1 THEN buf[1]
    ELSE buf[1] \o <<" ">> \o Join(Tail(buf))

\* the slice s[-n:] for n > 0
LastN(s, n) ==
    IF n >= Len(s) THEN s ELSE SubSeq(s, Len(s) - n + 1, Len(s))

\* index of the last newline of the whitespace run starting at i
LastNewline(t, i) ==
    MaxOf({i} \cup {k \in i..WsRunEnd(t, i) : t[k] = "\n"})

\* re.split(r'(?:\n\s*\n)+', t): a separator runs from a newline to the last
\* newline of the same whitespace run, and holds at least two newlines
RECURSIVE ParasFrom(_, _)
ParasFrom(t, start) ==
    LET seps == {i \in start..Len(t) : t[i] = "\n" /\ LastNewline(t, i) > i}
    IN  IF seps = {} THEN <<SubSeq(t, start, Len(t))>>
        ELSE <<SubSeq(t, start, MinOf(seps) - 1)>>
             \o ParasFrom(t, LastNewline(t, MinOf(seps)) + 1)

SplitParas(t) == ParasFrom(t, 1)

\* re.split(r'(?<=[.!?])\s+', p): a separator is a whitespace run that
\* directly follows a sentence terminator
RECURSIVE SentsFrom(_, _)
SentsFrom(p, start) ==
    LET seps == {i \in start..Len(p) : i > 1 /\ IsTerm(p[i - 1]) /\ IsWs(p[i])}
    IN  IF seps = {} THEN <<SubSeq(p, start, Len(p))>>
        ELSE <<SubSeq(p, start, MinOf(seps) - 1)>>
             \o SentsFrom(p, WsRunEnd(p, MinOf(seps)) + 1)

SplitSents(p) == SentsFrom(p, 1)

\* mutant: the tail is one character short (joined[-overlap+1:])
OverlapTailShort(joined, ov) ==
    IF ov > 1 THEN LastN(joined, ov - 1) ELSE <<>>

\* mutant: the tail is taken from the front of the chunk (joined[:overlap])
OverlapTailFront(joined, ov) ==
    IF ov > 0 THEN SubSeq(joined, 1, IF ov < Len(joined) THEN ov ELSE Len(joined))
    ELSE <<>>

\* the tail seeded into the next buffer when a chunk is closed
OverlapTail(joined, ov) == IF ov > 0 THEN LastN(joined, ov) ELSE <<>>

\* mutant: a flush seeds the next buffer with the tail alone and loses the
\* sentence that triggered it
SentStepLosesSentence(st, s, ml, ov) ==
    IF st.size + Len(s) > ml /\ st.buf # <<>>
    THEN LET joined == Join(st.buf)
             tail   == IF ov > 0 THEN LastN(joined, ov) ELSE <<>>
         IN  [closed |-> Append(st.closed, [raw |-> joined, carry |-> st.carry]),
              buf    |-> IF tail # <<>> THEN <<tail>> ELSE <<s>>,
              size   |-> Len(tail) + Len(s),
              carry  |-> Len(tail)]
    ELSE [st EXCEPT !.buf = Append(st.buf, s), !.size = st.size + Len(s)]

\* one iteration of the sentence loop of split_text.  st.closed holds the
\* chunks appended so far, each with the number of its leading characters
\* that were carried over from the chunk before it; st.carry is that number
\* for the buffer being filled.
SentStep(st, s, ml, ov) ==
    IF st.size + Len(s) > ml /\ st.buf # <<>>
    THEN LET joined == Join(st.buf)
             tail   == OverlapTail(joined, ov)
         IN  [closed |-> Append(st.closed, [raw |-> joined, carry |-> st.carry]),
              buf    |-> IF tail # <<>> THEN <<tail, s>> ELSE <<s>>,
              size   |-> Len(tail) + Len(s),
              carry  |-> Len(tail)]
    ELSE [st EXCEPT !.buf = Append(st.buf, s), !.size = st.size + Len(s)]

RECURSIVE SentLoop(_, _, _, _)
SentLoop(st, sents, ml, ov) ==
    IF sents = <<>> THEN st
    ELSE SentLoop(SentStep(st, Head(sents), ml, ov), Tail(sents), ml, ov)

RECURSIVE ParaLoop(_, _, _, _)
ParaLoop(st, paras, ml, ov) ==
    IF paras = <<>> THEN st
    ELSE LET p == Strip(Head(paras))
         IN  IF p = <<>>
             THEN ParaLoop(st, Tail(paras), ml, ov)
             ELSE ParaLoop(SentLoop(st, SplitSents(p), ml, ov), Tail(paras), ml, ov)

\* the chunks list of split_text just before its return statement
RawChunks(t, ml, ov) ==
    LET st == ParaLoop([closed |-> <<>>, buf |-> <<>>, size |-> 0, carry |-> 0],
                       SplitParas(t), ml, ov)
    IN  IF st.buf # <<>>
        THEN Append(st.closed, [raw |-> Join(st.buf), carry |-> st.carry])
        ELSE st.closed

\* [clean_text(c) for c in chunks if c.strip()]
RECURSIVE CleanKept(_)
CleanKept(rcs) ==
    IF rcs = <<>> THEN <<>>
    ELSE IF Strip(Head(rcs).raw) # <<>>
         THEN <<clean_text(Head(rcs).raw)>> \o CleanKept(Tail(rcs))
         ELSE CleanKept(Tail(rcs))

split_text(t, ml, ov) == CleanKept(RawChunks(t, ml, ov))

\* the values the variables of a part of the program hold while a
\* specification does not exercise that part
ChunkIdle ==
    /\ text = <<>>
    /\ max_len = 0
    /\ overlap = 0
    /\ chunks = <<>>
    /\ cpc = "idle"

IngestIdle ==
    /\ dirExists = FALSE
    /\ dataDir = <<>>
    /\ pending = {}
    /\ col = <<>>
    /\ added = 0
    /\ ipc = "idle"

JobIdle ==
    /\ now = 0
    /\ path = <<>>
    /\ tmp = <<>>
    /\ fd = <<>>
    /\ upResp = "idle"
    /\ wpc = "idle"
    /\ wsv = <<>>
    /\ wloc = <<>>
    /\ rd = <<>>
    /\ killed = FALSE

ShareIdle ==
    /\ uploads = <<>>
    /\ sdir = <<>>
    /\ spc = <<>>
    /\ stodo = <<>>
    /\ shanded = <<>>
    /\ sadded = <<>>

PdfIdle ==
    /\ pdf = <<>>
    /\ pidx = 0
    /\ pout = <<>>
    /\ pocr = {}
    /\ ppc = "idle"

(***************************************************************************)
(* Chunker specification: the inputs are drawn in Init, SplitText calls    *)
(* split_text once.                                                        *)
(***************************************************************************)
Texts == UNION {[1..n -> Alphabet] : n \in 0..MaxTextLen}

InitChunk ==
    /\ text \in Texts
    /\ max_len \in MaxLenArgs
    /\ overlap \in OverlapArgs
    /\ chunks = <<>>
    /\ cpc = "input"
    /\ IngestIdle
    /\ JobIdle
    /\ ShareIdle
    /\ PdfIdle

SplitText ==
    /\ cpc = "input"
    /\ chunks' = split_text(text, max_len, overlap)
    /\ cpc' = "done"
    /\ UNCHANGED <<text, max_len, overlap>>
    /\ UNCHANGED ingestVars
    /\ UNCHANGED jobVars
    /\ UNCHANGED shareVars
    /\ UNCHANGED pdfVars

NextChunk == SplitText

SpecChunk == InitChunk /\ [][NextChunk]_vars

(***************************************************************************)
(* Scenario specification: split_text as ingest_folder calls it (default   *)
(* max_len and overlap) on whitespace-normalised page texts of exactly 600 *)
(* characters.  A text is fixed by the positions of its sentence ends (a   *)
(* terminator followed by one space) and of some further word spaces.      *)
(***************************************************************************)
DefaultMaxLen == 500

DefaultOverlap == 120

BreakAt == {10, 100, 250, 400, 505, 550}

SpaceAt == {131, 281, 386}

LetterCycle == <<"a", "b", "c", "d", "e">>

ScenarioText(B, W) ==
    [i \in 1..600 |->
        IF i \in B THEN "."
        ELSE IF (i - 1) \in B \/ i \in W THEN " "
        ELSE LetterCycle[(i % 5) + 1]]

InitScenario ==
    /\ \E B \in SUBSET BreakAt, W \in SUBSET SpaceAt : text = ScenarioText(B, W)
    /\ max_len = DefaultMaxLen
    /\ overlap = DefaultOverlap
    /\ chunks = <<>>
    /\ cpc = "input"
    /\ IngestIdle
    /\ JobIdle
    /\ ShareIdle
    /\ PdfIdle

SpecScenario == InitScenario /\ [][NextChunk]_vars

(***************************************************************************)
(* Chunker properties                                                      *)
(***************************************************************************)
\* the chunks as closed by the sentence loop, before normalisation
Closed == RawChunks(text, max_len, overlap)

\* the normalised tail that chunk i hands to chunk i+1
CarriedTail(i) == clean_text(LastN(Closed[i].raw, overlap))

\* chunk i without the part carried over from chunk i-1
NonOverlap(i) ==
    IF Closed[i].carry = 0 THEN chunks[i]
    ELSE SubSeq(chunks[i],
                Len(clean_text(SubSeq(Closed[i].raw, 1, Closed[i].carry))) + 2,
                Len(chunks[i]))

\* C8 as stated: every 600-character page text gives exactly 2 chunks, the
\* second starting with the last 120 characters of the first.
C8_AnyText ==
    cpc = "done" =>
        /\ Len(chunks) = 2
        /\ IsPrefix(LastN(chunks[1], DefaultOverlap), chunks[2])

\* C8 amended: a 600-character normalised page text made of exactly two
\* sentences gives exactly 2 chunks, and the second chunk starts with the
\* last 120 characters of the first (the whole first chunk when it is
\* shorter) less their leading whitespace.
C8_TwoSentences ==
    (cpc = "done" /\ Len(SplitSents(text)) = 2) =>
        /\ Len(chunks) = 2
        /\ IsPrefix(LStrip(LastN(chunks[1], DefaultOverlap)) \o <<" ">>, chunks[2])

C8_Witness ==
    /\ cpc = "done"
    /\ Len(text) = 600
    /\ Len(SplitSents(text)) = 2
    /\ Len(chunks[1]) > DefaultOverlap
    /\ IsWs(LastN(chunks[1], DefaultOverlap)[1])
    /\ ~IsPrefix(LastN(chunks[1], DefaultOverlap), chunks[2])

C10_Reconstruct ==
    cpc = "done" =>
        /\ Len(chunks) = Len(Closed)
        /\ \A i \in 1..Len(chunks) : chunks[i] # <<>>
        /\ Join([i \in 1..Len(chunks) |-> NonOverlap(i)]) = clean_text(text)

C10_Witness ==
    /\ cpc = "done"
    /\ overlap > 0
    /\ Len(chunks) >= 3
    /\ \E i \in 1..Len(text) : text[i] = "\n"
    /\ \E i \in 2..Len(chunks) : NonOverlap(i) # chunks[i]
    /\ text # clean_text(text)

(***************************************************************************)
(* Ingestion (app/rag.py, ingest_folder)                                   *)
(*                                                                         *)
(* A file of the data directory is its name and what the libraries behind  *)
(* its parser do with it: raise, or yield a list of (text, page_num).      *)
(***************************************************************************)
MaxFiles == 3

Rep(c, n) == [i \in 1..n |-> c]

ShortPage == <<"a", "b", ".">>

LongPage == Rep("a", 299) \o <<".", " ">> \o Rep("b", 299) \o <<".">>

PageTexts == {ShortPage, LongPage}

Corrupt == [raises |-> TRUE, pages |-> <<>>]

NoPages == [raises |-> FALSE, pages |-> <<>>]

OnePage == [raises |-> FALSE, pages |-> <<[text |-> ShortPage, page |-> 1]>>]

TwoPages ==
    [raises |-> FALSE,
     pages  |-> <<[text |-> ShortPage, page |-> 1], [text |-> LongPage, page |-> 2]>>]

Contents == {Corrupt, NoPages, OnePage, TwoPages}

FileNames ==
    {<<"B", ".", "P", "D", "F">>,
     <<"c", ".", "d", "o", "c", "x">>,
     <<"d", ".", "x", "l", "s", "x">>,
     <<"e", ".", "d", "o", "c">>,
     <<"f", ".", "d", "o", "c", "m">>,
     <<"g", ".", "t", "x", "t">>,
     <<"h", ".", "c", "o", "n", "v", "e", "r", "t", "e", "d", ".", "p", "d", "f">>}

LowerCase == <<"a", "b", "c", "d", "e", "f", "g", "h", "i", "j", "k", "l", "m",
               "n", "o", "p", "q", "r", "s", "t", "u", "v", "w", "x", "y", "z">>

UpperCase == <<"A", "B", "C", "D", "E", "F", "G", "H", "I", "J", "K", "L", "M",
               "N", "O", "P", "Q", "R", "S", "T", "U", "V", "W", "X", "Y", "Z">>

\* str.lower()
Lower(name) ==
    [i \in 1..Len(name) |->
        IF \E k \in 1..26 : UpperCase[k] = name[i]
        THEN LowerCase[CHOOSE k \in 1..26 : UpperCase[k] = name[i]]
        ELSE name[i]]

EndsWith(name, suffix) == IsSuffix(suffix, name)

ExtPdf == <<".", "p", "d", "f">>

ExtDocx == <<".", "d", "o", "c", "x">>

ExtXlsx == <<".", "x", "l", "s", "x">>

ExtDoc == <<".", "d", "o", "c">>

ExtDocm == <<".", "d", "o", "c", "m">>

ExtConverted == <<".", "c", "o", "n", "v", "e", "r", "t", "e", "d", ".", "p", "d", "f">>

\* convert_doc_to_pages: every failure inside it (no soffice, a failed
\* conversion, no PDF produced, a PDF that does not parse) yields []
convert_doc_to_pages(content) ==
    IF content.raises THEN <<>> ELSE content.pages

\* split_text(page_text) for the page texts of the catalogue, computed once
ChunksOfPage == [t \in PageTexts |-> split_text(t, DefaultMaxLen, DefaultOverlap)]

\* the documents col.add receives for one parsed file, in order
RECURSIVE DocsOfPages(_, _)
DocsOfPages(name, pages) ==
    IF pages = <<>> THEN <<>>
    ELSE [k \in 1..Len(ChunksOfPage[Head(pages).text]) |->
             [source |-> name, page |-> Head(pages).page,
              chunk  |-> ChunksOfPage[Head(pages).text][k]]]
         \o DocsOfPages(name, Tail(pages))

\* mutant: the except clause is missing, a parser's exception propagates
FileOutcomeUncaught(name, content) ==
    LET low == Lower(name)
    IN  IF EndsWith(low, ExtConverted) THEN [kind |-> "continue", pages |-> <<>>]
        ELSE IF EndsWith(low, ExtPdf) \/ EndsWith(low, ExtDocx) \/ EndsWith(low, ExtXlsx)
             THEN IF content.raises
                  THEN [kind |-> "raise", pages |-> <<>>]
                  ELSE [kind |-> "pages", pages |-> content.pages]
        ELSE IF EndsWith(low, ExtDoc) \/ EndsWith(low, ExtDocm)
             THEN IF convert_doc_to_pages(content) = <<>>
                  THEN [kind |-> "continue", pages |-> <<>>]
                  ELSE [kind |-> "pages", pages |-> convert_doc_to_pages(content)]
        ELSE [kind |-> "continue", pages |-> <<>>]

\* the body of the for loop up to the page loop: "continue" skips the file,
\* "pages" goes on to index its pages, "raise" leaves ingest_folder with an
\* exception
FileOutcome(name, content) ==
    LET low == Lower(name)
    IN  IF EndsWith(low, ExtConverted) THEN [kind |-> "continue", pages |-> <<>>]
        ELSE IF EndsWith(low, ExtPdf) \/ EndsWith(low, ExtDocx) \/ EndsWith(low, ExtXlsx)
             THEN IF content.raises
                  THEN [kind |-> "continue", pages |-> <<>>]   \* except Exception
                  ELSE [kind |-> "pages", pages |-> content.pages]
        ELSE IF EndsWith(low, ExtDoc) \/ EndsWith(low, ExtDocm)
             THEN IF convert_doc_to_pages(content) = <<>>
                  THEN [kind |-> "continue", pages |-> <<>>]
                  ELSE [kind |-> "pages", pages |-> convert_doc_to_pages(content)]
        ELSE [kind |-> "continue", pages |-> <<>>]

Directories ==
    UNION {[names -> Contents] :
           names \in {N \in SUBSET FileNames : Cardinality(N) <= MaxFiles}}

InitIngest ==
    /\ ChunkIdle
    /\ JobIdle
    /\ ShareIdle
    /\ PdfIdle
    /\ \/ dirExists = TRUE /\ dataDir \in Directories
       \/ dirExists = FALSE /\ dataDir = <<>>
    /\ pending = {}
    /\ col = <<>>
    /\ added = 0
    /\ ipc = "call"

\* get_chroma(), added = 0, the isdir test and the call of os.listdir
IngestCall ==
    /\ ipc = "call"
    /\ IF dirExists
       THEN pending' = DOMAIN dataDir /\ ipc' = "loop"
       ELSE pending' = {} /\ ipc' = "returned"
    /\ added' = 0
    /\ UNCHANGED <<dirExists, dataDir, col>>
    /\ UNCHANGED chunkVars
    /\ UNCHANGED jobVars
    /\ UNCHANGED shareVars
    /\ UNCHANGED pdfVars

\* one iteration of the for loop; os.listdir yields the names in any order
IngestFile ==
    /\ ipc = "loop"
    /\ \E name \in pending :
         LET out  == FileOutcome(name, dataDir[name])
             docs == DocsOfPages(name, out.pages)
         IN  IF out.kind = "raise"
             THEN /\ ipc' = "raised"
                  /\ UNCHANGED <<pending, col, added>>
             ELSE /\ col' = (IF out.kind = "pages" THEN col \o docs ELSE col)
                  /\ added' = (IF out.kind = "pages" THEN added + Len(docs) ELSE added)
                  /\ pending' = pending \ {name}
                  /\ ipc' = "loop"
    /\ UNCHANGED <<dirExists, dataDir>>
    /\ UNCHANGED chunkVars
    /\ UNCHANGED jobVars
    /\ UNCHANGED shareVars
    /\ UNCHANGED pdfVars

\* return {'chunks_added': added}
IngestReturn ==
    /\ ipc = "loop"
    /\ pending = {}
    /\ ipc' = "returned"
    /\ UNCHANGED <<dirExists, dataDir, pending, col, added>>
    /\ UNCHANGED chunkVars
    /\ UNCHANGED jobVars
    /\ UNCHANGED shareVars
    /\ UNCHANGED pdfVars

NextIngest == IngestCall \/ IngestFile \/ IngestReturn

SpecIngest == InitIngest /\ [][NextIngest]_vars

(***************************************************************************)
(* Ingestion properties                                                    *)
(***************************************************************************)
\* the files whose parser ran and yielded pages: a supported extension, no
\* leftover conversion artifact, and no failure of the parser or converter
ParsedFiles ==
    {n \in DOMAIN dataDir :
        /\ ~dataDir[n].raises
        /\ ~EndsWith(Lower(n), ExtConverted)
        /\ \E e \in {ExtPdf, ExtDocx, ExtXlsx, ExtDoc, ExtDocm} : EndsWith(Lower(n), e)}

FailedFiles == DOMAIN dataDir \ ParsedFiles

\* every chunk of every page of the parsed files
ExpectedDocs ==
    UNION {UNION {{[source |-> n, page |-> dataDir[n].pages[j].page,
                    chunk  |-> ChunksOfPage[dataDir[n].pages[j].text][k]] :
                       k \in 1..Len(ChunksOfPage[dataDir[n].pages[j].text])} :
                  j \in 1..Len(dataDir[n].pages)} :
           n \in ParsedFiles}

\* C7: parser failures, unsupported files and unconvertible legacy files
\* never make ingest_folder raise; when it returns, the index holds one
\* document per chunk of every parsed file and nothing else, and
\* chunks_added is their number.
C7_FailuresSkipped ==
    /\ ipc # "raised"
    /\ (ipc = "returned" /\ dirExists) =>
          /\ {col[i] : i \in 1..Len(col)} = ExpectedDocs
          /\ Len(col) = Cardinality(ExpectedDocs)
          /\ added = Cardinality(ExpectedDocs)

C7_Witness ==
    /\ ipc = "returned"
    /\ dirExists
    /\ \E n \in FailedFiles : dataDir[n].raises /\ EndsWith(Lower(n), ExtXlsx)
    /\ \E n \in FailedFiles : dataDir[n].raises /\ EndsWith(Lower(n), ExtDoc)
    /\ \E n \in ParsedFiles : Len(dataDir[n].pages) = 2
    /\ added = 3

(***************************************************************************)
(* Job store and background ingestion (app/main.py)                        *)
(*                                                                         *)
(* One job is followed.  Its record lives in the file `path`; _job_save    *)
(* stages every write in the file `tmp`, whose name depends on the job id  *)
(* alone.  A file is the record whose serialisation was last written at    *)
(* offset 0 and the file's length: open(tmp, "w") truncates the file or    *)
(* creates it, json.dump's output reaches the file in one write when the   *)
(* with block closes it, and os.replace moves tmp onto path.  A file of    *)
(* length -1 does not exist.  Thread 0 is the job's worker, the threads    *)
(* 1..MaxReaders serve ingest_status requests.                             *)
(***************************************************************************)
MaxReaders == 2

StartTime == 1

MaxTime == 1802

TickSteps == {1800, 1801}

ResultLen == 80

ErrorLen == 200

WATCHDOG_IDLE_SECS == 1800

Readers == 1..MaxReaders

Threads == {0} \cup Readers

NoRec ==
    [status |-> "", step |-> "", note |-> "", started_at |-> 0, updated_at |-> 0,
     err |-> FALSE, res |-> FALSE]

NoFile == [rec |-> NoRec, len |-> -1]

EmptyFile == [rec |-> NoRec, len |-> 0]

QueuedRec(t) ==
    [status |-> "queued", step |-> "queued", note |-> "Queued. Will start shortly...",
     started_at |-> t, updated_at |-> 0, err |-> FALSE, res |-> FALSE]

OpeningRec(started) ==
    [status |-> "processing", step |-> "opening-files", note |-> "Parsing and indexing...",
     started_at |-> started, updated_at |-> 0, err |-> FALSE, res |-> FALSE]

IngestStartRec(started) ==
    [status |-> "processing", step |-> "ingest-start",
     note |-> "Calling save_and_ingest_uploads...",
     started_at |-> started, updated_at |-> 0, err |-> FALSE, res |-> FALSE]

DoneRec(started) ==
    [status |-> "done", step |-> "complete", note |-> "Completed.",
     started_at |-> started, updated_at |-> 0, err |-> FALSE, res |-> TRUE]

ErrorRec(started) ==
    [status |-> "error", step |-> "exception", note |-> "Failed during ingestion.",
     started_at |-> started, updated_at |-> 0, err |-> TRUE, res |-> FALSE]

WatchdogNote == "Watchdog timeout (> 30 min without progress)."

\* the number of bytes json.dump writes for a record, less what all the
\* records of a job have in common
RecLen(rec) ==
    Len(rec.status) + Len(rec.step) + Len(rec.note)
        + (IF rec.err THEN ErrorLen ELSE 0) + (IF rec.res THEN ResultLen ELSE 0)

\* a write of rec's serialisation at offset 0 of file f
Overlay(f, rec) ==
    [rec |-> rec, len |-> IF f.len > RecLen(rec) THEN f.len ELSE RecLen(rec)]

\* _job_load on a file: None when it does not exist, the record when the
\* file holds exactly one serialised record, else json.load raises
JobLoad(f) ==
    IF f.len = -1 THEN [kind |-> "none", rec |-> NoRec]
    ELSE IF f.rec # NoRec /\ f.len = RecLen(f.rec) THEN [kind |-> "ok", rec |-> f.rec]
    ELSE [kind |-> "raise", rec |-> NoRec]

\* _job_save, first part: obj["updated_at"] = int(time.time()), then
\* open(tmp, "w")
Stamp(rec) == [rec EXCEPT !.updated_at = now]

OpenTmp(p) ==
    /\ tmp' = EmptyFile
    /\ fd' = [fd EXCEPT ![p] = "tmp"]
    /\ UNCHANGED path

\* _job_save, second part: json.dump and the close that ends the with block
FlushClose(p, rec) ==
    /\ tmp' = (IF fd[p] = "tmp" THEN Overlay(tmp, rec) ELSE tmp)
    /\ path' = (IF fd[p] = "path" THEN Overlay(path, rec) ELSE path)
    /\ fd' = [fd EXCEPT ![p] = "none"]

\* _job_save, last part: os.replace(tmp, path) when tmp exists (it raises
\* FileNotFoundError when it does not); the handles other threads hold
\* follow their file
ReplaceTmp ==
    /\ tmp.len # -1
    /\ path' = tmp
    /\ tmp' = NoFile
    /\ fd' = [q \in Threads |->
                IF fd[q] = "tmp" THEN "path"
                ELSE IF fd[q] = "path" THEN "orphan" ELSE fd[q]]

NoSave == [stage |-> "none", rec |-> NoRec]

IdleReader ==
    [pc |-> "idle", seen |-> NoRec, at |-> 0, job |-> NoRec, out |-> "none",
     saved |-> FALSE]

InitJob ==
    /\ ChunkIdle
    /\ IngestIdle
    /\ ShareIdle
    /\ PdfIdle
    /\ now = StartTime
    /\ path = NoFile
    /\ tmp = NoFile
    /\ fd = [q \in Threads |-> "none"]
    /\ upResp = "none"
    /\ wpc = "idle"
    /\ wsv = NoSave
    /\ wloc = [started |-> 0, estarted |-> 0, handles |-> FALSE, dir |-> FALSE,
               cleanup |-> FALSE, exc |-> FALSE]
    /\ rd = [r \in Readers |-> IdleReader]
    /\ killed = FALSE

JobFrame ==
    /\ UNCHANGED chunkVars
    /\ UNCHANGED ingestVars
    /\ UNCHANGED shareVars
    /\ UNCHANGED pdfVars

\* the clock
Tick ==
    /\ \E d \in TickSteps : now + d <= MaxTime /\ now' = now + d
    /\ UNCHANGED <<path, tmp, fd, upResp, wpc, wsv, wloc, rd, killed>>
    /\ JobFrame

\* ingest_upload.  The job id is not known to anyone before the handler
\* returns, so no other thread writes the job's files during its _job_save.
Upload ==
    /\ upResp \in {"none", "400"}
    /\ ~killed
    /\ \E files \in {"none", "some"} :
         IF files = "none"
         THEN /\ upResp' = "400"
              /\ UNCHANGED <<path, wpc, wloc>>
         ELSE /\ upResp' = "202"
              /\ path' = Overlay(EmptyFile, Stamp(QueuedRec(now)))
              /\ wloc' = [wloc EXCEPT !.dir = TRUE]
              /\ wpc' = "save1"
    /\ UNCHANGED <<now, tmp, fd, wsv, rd, killed>>
    /\ JobFrame

(***************************************************************************)
(* _ingest_job                                                             *)
(***************************************************************************)
SaveLabels == {"save1", "save2", "save3", "esave"}

\* where the worker goes when the _job_save it is in returns
AfterSave(label) ==
    CASE label = "save1" -> "reopen"
      [] label = "save2" -> "ingest"
      [] label = "save3" -> "finished"
      [] label = "esave" -> "finished"

\* where the worker goes when the statement at label raises: the except
\* clause for the try block, out of the thread for the except clause itself
OnRaise(label) ==
    IF label \in {"save1", "reopen", "save2", "ingest", "cleanup", "save3"}
    THEN "eload1"
    ELSE "crashed"

\* the record the _job_save at label is given
RecordAt(label) ==
    CASE label = "save1" -> OpeningRec(now)
      [] label = "save2" -> IngestStartRec(wloc.started)
      [] label = "save3" -> DoneRec(wloc.started)
      [] label = "esave" -> ErrorRec(wloc.estarted)

WSaveOpen ==
    /\ wpc \in SaveLabels
    /\ wsv.stage = "none"
    /\ wsv' = [stage |-> "opened", rec |-> Stamp(RecordAt(wpc))]
    /\ wloc' = (IF wpc = "save1" THEN [wloc EXCEPT !.started = now] ELSE wloc)
    /\ OpenTmp(0)
    /\ UNCHANGED <<now, upResp, wpc, rd, killed>>
    /\ JobFrame

WSaveFlush ==
    /\ wpc \in SaveLabels
    /\ wsv.stage = "opened"
    /\ wsv' = [wsv EXCEPT !.stage = "closed"]
    /\ FlushClose(0, wsv.rec)
    /\ UNCHANGED <<now, upResp, wpc, wloc, rd, killed>>
    /\ JobFrame

WSaveReplace ==
    /\ wpc \in SaveLabels
    /\ wsv.stage = "closed"
    /\ wsv' = NoSave
    /\ IF tmp.len # -1
       THEN /\ ReplaceTmp
            /\ wpc' = AfterSave(wpc)
            /\ UNCHANGED wloc
       ELSE /\ wpc' = OnRaise(wpc)
            /\ wloc' = [wloc EXCEPT !.exc = TRUE]
            /\ UNCHANGED <<path, tmp, fd>>
    /\ UNCHANGED <<now, upResp, rd, killed>>
    /\ JobFrame

\* os.listdir(job_dir) and open(p, "rb") for every upload; either may raise,
\* the second after some handles have been opened
WReopen ==
    /\ wpc = "reopen"
    /\ \/ /\ wpc' = "save2"
          /\ wloc' = [wloc EXCEPT !.handles = TRUE]
       \/ \E opened \in BOOLEAN :
             /\ wpc' = OnRaise(wpc)
             /\ wloc' = [wloc EXCEPT !.handles = opened, !.exc = TRUE]
    /\ UNCHANGED <<now, path, tmp, fd, upResp, wsv, rd, killed>>
    /\ JobFrame

\* res = save_and_ingest_uploads(files): returns or raises
WIngest ==
    /\ wpc = "ingest"
    /\ \/ /\ wpc' = "cleanup"
          /\ UNCHANGED wloc
       \/ /\ wpc' = OnRaise(wpc)
          /\ wloc' = [wloc EXCEPT !.exc = TRUE]
    /\ UNCHANGED <<now, path, tmp, fd, upResp, wsv, rd, killed>>
    /\ JobFrame

\* close every handle, remove the uploads and the directory; every
\* exception is swallowed, so the directory may survive
WCleanup ==
    /\ wpc = "cleanup"
    /\ wpc' = "save3"
    /\ \E removed \in BOOLEAN :
         wloc' = [wloc EXCEPT !.handles = FALSE, !.cleanup = TRUE,
                              !.dir = ~removed]
    /\ UNCHANGED <<now, path, tmp, fd, upResp, wsv, rd, killed>>
    /\ JobFrame

\* the except clause, "started_at": the condition _job_load(job_id)
WExceptLoad1 ==
    /\ wpc = "eload1"
    /\ LET l == JobLoad(path)
       IN  IF l.kind = "raise"
           THEN wpc' = "crashed" /\ UNCHANGED wloc
           ELSE IF l.kind = "none"
           THEN wpc' = "esave" /\ wloc' = [wloc EXCEPT !.estarted = now]
           ELSE wpc' = "eload2" /\ UNCHANGED wloc
    /\ UNCHANGED <<now, path, tmp, fd, upResp, wsv, rd, killed>>
    /\ JobFrame

\* the except clause, "started_at": _job_load(job_id)["started_at"]
WExceptLoad2 ==
    /\ wpc = "eload2"
    /\ LET l == JobLoad(path)
       IN  IF l.kind = "ok"
           THEN wpc' = "esave" /\ wloc' = [wloc EXCEPT !.estarted = l.rec.started_at]
           ELSE wpc' = "crashed" /\ UNCHANGED wloc
    /\ UNCHANGED <<now, path, tmp, fd, upResp, wsv, rd, killed>>
    /\ JobFrame

WorkerStep ==
    \/ WSaveOpen \/ WSaveFlush \/ WSaveReplace
    \/ WReopen \/ WIngest \/ WCleanup
    \/ WExceptLoad1 \/ WExceptLoad2

(***************************************************************************)
(* ingest_status                                                           *)
(***************************************************************************)
\* mutant: the watchdog does not look at the age of the record
WatchdogFiresAtAnyAge(job, t) == job.status \in {"queued", "processing"}

\* the watchdog's test: job.get("updated_at") or job.get("started_at") or
\* int(time.time())
WatchdogFires(job, t) ==
    /\ job.status \in {"queued", "processing"}
    /\ LET updated == IF job.updated_at # 0 THEN job.updated_at
                      ELSE IF job.started_at # 0 THEN job.started_at ELSE t
       IN  t - updated > WATCHDOG_IDLE_SECS

\* _job_load, the 404 and the watchdog's test; a client may ask for an id
\* that has no record
Poll(r) ==
    /\ rd[r].pc = "idle"
    /\ LET l == JobLoad(path)
       IN  rd' = [rd EXCEPT ![r] =
                 IF l.kind = "none" THEN [IdleReader EXCEPT !.out = "404", !.at = now]
                 ELSE IF l.kind = "raise" THEN [IdleReader EXCEPT !.out = "500", !.at = now]
                 ELSE IF WatchdogFires(l.rec, now)
                 THEN [pc |-> "open", seen |-> l.rec, at |-> now,
                       job |-> [l.rec EXCEPT !.status = "error", !.note = WatchdogNote],
                       out |-> "none", saved |-> FALSE]
                 ELSE [pc |-> "idle", seen |-> l.rec, at |-> now, job |-> l.rec,
                       out |-> "200", saved |-> FALSE]]
    /\ UNCHANGED <<now, path, tmp, fd, upResp, wpc, wsv, wloc, killed>>
    /\ JobFrame

RSaveOpen(r) ==
    /\ rd[r].pc = "open"
    /\ rd' = [rd EXCEPT ![r].pc = "flush", ![r].job = Stamp(rd[r].job)]
    /\ OpenTmp(r)
    /\ UNCHANGED <<now, upResp, wpc, wsv, wloc, killed>>
    /\ JobFrame

RSaveFlush(r) ==
    /\ rd[r].pc = "flush"
    /\ rd' = [rd EXCEPT ![r].pc = "replace"]
    /\ FlushClose(r, rd[r].job)
    /\ UNCHANGED <<now, upResp, wpc, wsv, wloc, killed>>
    /\ JobFrame

\* os.replace and the return of the job, or the uncaught FileNotFoundError
RSaveReplace(r) ==
    /\ rd[r].pc = "replace"
    /\ IF tmp.len # -1
       THEN /\ rd' = [rd EXCEPT ![r].pc = "idle", ![r].out = "200",
                                ![r].saved = (tmp = Overlay(EmptyFile, rd[r].job))]
            /\ ReplaceTmp
       ELSE /\ rd' = [rd EXCEPT ![r].pc = "idle", ![r].out = "500"]
            /\ UNCHANGED <<path, tmp, fd>>
    /\ UNCHANGED <<now, upResp, wpc, wsv, wloc, killed>>
    /\ JobFrame

ReaderStep(r) == Poll(r) \/ RSaveOpen(r) \/ RSaveFlush(r) \/ RSaveReplace(r)

\* the server process is killed and restarted: its threads are gone, the
\* files stay as they are
Kill ==
    /\ ~killed
    /\ upResp = "202"
    /\ killed' = TRUE
    /\ wpc' = (IF wpc \in {"finished", "crashed"} THEN wpc ELSE "dead")
    /\ wsv' = NoSave
    /\ rd' = [r \in Readers |-> IdleReader]
    /\ fd' = [q \in Threads |-> "none"]
    /\ UNCHANGED <<now, path, tmp, upResp, wloc>>
    /\ JobFrame

NextJob ==
    \/ Tick
    \/ Upload
    \/ WorkerStep
    \/ \E r \in Readers : ReaderStep(r)
    \/ Kill

SpecJob == InitJob /\ [][NextJob]_vars

\* the scheduler runs every thread that can run, the clock advances, and
\* clients keep polling
SpecJobFair ==
    /\ SpecJob
    /\ WF_vars(WorkerStep)
    /\ WF_vars(Tick)
    /\ \A r \in Readers : WF_vars(ReaderStep(r))

(***************************************************************************)
(* Job properties                                                          *)
(***************************************************************************)
Stored == JobLoad(path)

\* the persisted status: that of the record a _job_load would return
StoreStatus == IF Stored.kind = "ok" THEN Stored.rec.status ELSE Stored.kind

Terminal == {"done", "error"}

StatusRank(st) ==
    CASE st = "queued" -> 1
      [] st = "processing" -> 2
      [] st \in Terminal -> 3

WorkerEnded == wpc \in {"finished", "crashed"}

\* C1: the persisted status only moves forward along queued -> processing
\* -> {done, error}, and a persisted done or error never changes again.
C1_NeverRegresses ==
    [][(Stored.kind = "ok" /\ JobLoad(path').kind = "ok") =>
          /\ StatusRank(JobLoad(path').rec.status) >= StatusRank(Stored.rec.status)
          /\ Stored.rec.status \in Terminal =>
                JobLoad(path').rec.status = Stored.rec.status]_vars

\* the record reader r loaded was queued or processing and more than the
\* idle threshold old at the time of the read
ReadStale(r) ==
    /\ rd[r].seen.status \in {"queued", "processing"}
    /\ rd[r].at - rd[r].seen.updated_at > WATCHDOG_IDLE_SECS

\* C2: a read of a queued or processing job that is more than 1800 s old
\* returns the record with status error and the watchdog note, and has
\* persisted that record when it returns.
C2_StaleReadMarksError ==
    \A r \in Readers :
        (rd[r].pc = "idle" /\ ReadStale(r)) =>
            /\ rd[r].out = "200"
            /\ rd[r].job.status = "error"
            /\ rd[r].job.note = WatchdogNote
            /\ rd[r].saved

\* C3: every _job_load returns None or a complete record given to one
\* _job_save: no status read ends with json.load raising on the job file.
C3_LoadsComplete ==
    \A r \in Readers :
        ~(rd[r].pc = "idle" /\ rd[r].out = "500" /\ rd[r].seen = NoRec)

\* C4: once a step of the worker has raised and the worker has ended, the
\* exception has not left the thread and the persisted record has status
\* error with error and traceback populated.
C4_FaultCaptured ==
    (WorkerEnded /\ wloc.exc) =>
        /\ wpc = "finished"
        /\ Stored.kind = "ok"
        /\ Stored.rec.status = "error"
        /\ Stored.rec.err

\* C5: whenever the worker has ended, on the success path and on the
\* failure path alike, cleanup has been attempted and the upload handles
\* are closed.
C5_CleanupAlways ==
    wpc = "finished" => (wloc.cleanup /\ ~wloc.handles)

\* the persisted record is non-terminal and past the watchdog's threshold
Overdue ==
    /\ Stored.kind = "ok"
    /\ Stored.rec.status \notin Terminal
    /\ now - Stored.rec.updated_at > WATCHDOG_IDLE_SECS

\* the bounded clock can advance no further
ClockStopped == \A d \in TickSteps : now + d > MaxTime

\* C6: every submitted job eventually reaches a terminal persisted status
\* and stays there.  A record that is not terminal only because the clock
\* of the model has stopped before its deadline is not counted against it.
C6_EventuallyTerminal ==
    (upResp = "202") ~>
        [](\/ StoreStatus \in Terminal
           \/ (Stored.kind = "ok" /\ ClockStopped /\ ~Overdue))

(***************************************************************************)
(* Status specification: the job with its worker, the clock and restarts   *)
(* as in SpecJob, and at most MaxPollers request threads serving           *)
(* ingest_status at a time.                                                *)
(***************************************************************************)
MaxPollers == 1

Pollers == {r \in Readers : r <= MaxPollers}

NextStatus ==
    \/ Tick
    \/ Upload
    \/ WorkerStep
    \/ \E r \in Pollers : ReaderStep(r)
    \/ Kill

SpecStatus == InitJob /\ [][NextStatus]_vars

\* C13: a status read writes the job store only when the record it loaded
\* was queued or processing and more than 1800 s old.  A read of an unknown
\* id, of a done or error record, or of a younger record returns without a
\* write, so it leaves updated_at as it was and creates no record.
C13_ReadWritesOnlyWhenStale ==
    [][\A r \in Readers :
          (rd'[r] # rd[r] /\ killed' = killed) =>
              /\ (path' # path \/ tmp' # tmp) => (rd[r].pc # "idle" /\ ReadStale(r))
              /\ (rd[r].pc = "idle" /\ ~ReadStale(r)') =>
                    (rd'[r].pc = "idle" /\ path' = path /\ tmp' = tmp)
              /\ (rd[r].pc = "idle" /\ path.len = -1) => rd'[r].out = "404"]_vars

C13_Witness ==
    \E r \in Readers :
        /\ rd[r].pc = "idle" /\ rd[r].out = "200"
        /\ rd[r].seen.status = "processing"
        /\ rd[r].at - rd[r].seen.updated_at = WATCHDOG_IDLE_SECS
        /\ path.rec = rd[r].seen
        /\ tmp = NoFile
        /\ now = rd[r].at

(***************************************************************************)
(* Two upload jobs (app/ingest.py, save_and_ingest_uploads)                *)
(*                                                                         *)
(* Every worker calls save_and_ingest_uploads with the files of its own    *)
(* job.  The function copies them into the one directory DATA_DIR and      *)
(* then runs ingest_folder over that directory.  open(path, "wb") leaves   *)
(* an empty file, which no parser accepts, until w.write fills it.         *)
(***************************************************************************)
MaxJobs == 2

Jobs == 1..MaxJobs

UploadNames == {<<"a", ".", "p", "d", "f">>, <<"b", ".", "d", "o", "c", "x">>}

\* the non-empty file lists a job can be given
UploadSets ==
    UNION {[N -> Contents] : N \in (SUBSET UploadNames) \ {{}}}

\* the directory d after the file name has been given the content c
WriteFile(d, name, c) ==
    [n \in (DOMAIN d) \cup {name} |-> IF n = name THEN c ELSE d[n]]

InitShare ==
    /\ ChunkIdle
    /\ IngestIdle
    /\ JobIdle
    /\ PdfIdle
    /\ uploads \in [Jobs -> UploadSets]
    /\ sdir = <<>>
    /\ spc = [j \in Jobs |-> [at |-> "save", name |-> <<>>]]
    /\ stodo = [j \in Jobs |-> DOMAIN uploads[j]]
    /\ shanded = [j \in Jobs |-> <<>>]
    /\ sadded = [j \in Jobs |-> 0]

ShareFrame ==
    /\ UNCHANGED chunkVars
    /\ UNCHANGED ingestVars
    /\ UNCHANGED jobVars
    /\ UNCHANGED pdfVars

\* for f in files: path = os.path.join(DATA_DIR, f.filename); open(path, "wb")
SaveOpen(j) ==
    /\ spc[j].at = "save"
    /\ \E name \in stodo[j] :
         /\ sdir' = WriteFile(sdir, name, Corrupt)
         /\ spc' = [spc EXCEPT ![j] = [at |-> "write", name |-> name]]
         /\ stodo' = [stodo EXCEPT ![j] = stodo[j] \ {name}]
    /\ UNCHANGED <<uploads, shanded, sadded>>
    /\ ShareFrame

\* w.write(f.file.read()) and the end of the with block
SaveWrite(j) ==
    /\ spc[j].at = "write"
    /\ sdir' = WriteFile(sdir, spc[j].name, uploads[j][spc[j].name])
    /\ spc' = [spc EXCEPT ![j] = [at |-> "save", name |-> <<>>]]
    /\ UNCHANGED <<uploads, stodo, shanded, sadded>>
    /\ ShareFrame

\* out = ingest_folder(DATA_DIR), up to the call of os.listdir(data_dir)
ShareList(j) ==
    /\ spc[j].at = "save"
    /\ stodo[j] = {}
    /\ spc' = [spc EXCEPT ![j] = [at |-> "loop", name |-> <<>>]]
    /\ stodo' = [stodo EXCEPT ![j] = DOMAIN sdir]
    /\ sadded' = [sadded EXCEPT ![j] = 0]
    /\ UNCHANGED <<uploads, sdir, shanded>>
    /\ ShareFrame

\* one iteration of the for loop of ingest_folder over DATA_DIR
ShareFile(j) ==
    /\ spc[j].at = "loop"
    /\ \E name \in stodo[j] :
         LET out  == FileOutcome(name, sdir[name])
             docs == DocsOfPages(name, out.pages)
         IN  /\ shanded' = [shanded EXCEPT ![j] = shanded[j] \o docs]
             /\ sadded' = [sadded EXCEPT ![j] = sadded[j] + Len(docs)]
             /\ stodo' = [stodo EXCEPT ![j] = stodo[j] \ {name}]
    /\ UNCHANGED <<uploads, sdir, spc>>
    /\ ShareFrame

\* return {'chunks_added': added}; out["uploaded"] = saved; return out
ShareReturn(j) ==
    /\ spc[j].at = "loop"
    /\ stodo[j] = {}
    /\ spc' = [spc EXCEPT ![j] = [at |-> "returned", name |-> <<>>]]
    /\ UNCHANGED <<uploads, sdir, stodo, shanded, sadded>>
    /\ ShareFrame

JobStep(j) ==
    \/ SaveOpen(j) \/ SaveWrite(j) \/ ShareList(j) \/ ShareFile(j) \/ ShareReturn(j)

NextShare == \E j \in Jobs : JobStep(j)

SpecShare == InitShare /\ [][NextShare]_vars

(***************************************************************************)
(* Properties of two jobs                                                  *)
(***************************************************************************)
\* the documents ingest_folder makes of the files job j was given
OwnDocs(j) ==
    UNION {{DocsOfPages(n, FileOutcome(n, uploads[j][n]).pages)[k] :
               k \in 1..Len(DocsOfPages(n, FileOutcome(n, uploads[j][n]).pages))} :
           n \in DOMAIN uploads[j]}

\* C11: the documents a job hands to the index, and its chunks_added, are
\* those of the job's own uploaded files, whatever the other job uploads
\* and however the two jobs are scheduled.
C11_OwnFilesOnly ==
    \A j \in Jobs :
        spc[j].at = "returned" =>
            /\ {shanded[j][k] : k \in 1..Len(shanded[j])} = OwnDocs(j)
            /\ sadded[j] = Cardinality(OwnDocs(j))

(***************************************************************************)
(* parse_pdf and its OCR fallback (app/rag.py)                             *)
(*                                                                         *)
(* A page is what the two libraries do with it: extract_text raises or     *)
(* returns a string (None counts as the empty string), and the OCR of the  *)
(* rendered page raises or returns a string.  A document is whether        *)
(* PdfReader(path) opens it, and its pages.                                *)
(***************************************************************************)
MaxPages == 3

OcrMinChars == 30

Raises == [raises |-> TRUE, raw |-> <<>>]

Returns(raw) == [raises |-> FALSE, raw |-> raw]

\* 32 characters that clean_text makes 29 of
PaddedText == <<" ">> \o Rep("a", 14) \o <<" ", "\n">> \o Rep("b", 14) \o <<" ">>

ExtractResults ==
    {Raises, Returns(<<>>), Returns(Rep("a", 10)), Returns(PaddedText),
     Returns(Rep("a", 30))}

OcrResults == {Raises, Returns(<<"\n", " ">>), Returns(<<" ", "o", "k", "\n">>)}

PdfPages == [extract : ExtractResults, ocr : OcrResults]

PdfDocuments ==
    {[opens |-> FALSE, pages |-> <<>>]}
        \cup {[opens |-> TRUE, pages |-> ps] :
                 ps \in UNION {[1..n -> PdfPages] : n \in 0..MaxPages}}

\* ocr_pdf_page when rendering and tesseract succeed: clean_text(text or "")
ocr_pdf_page(page) == clean_text(page.ocr.raw)

\* if len(text) < 30
NeedsOcr(t) == Len(t) < OcrMinChars

\* mutant: the call of ocr_pdf_page is not inside a try block
PageOutcomeOcrUncaught(page) ==
    LET raw  == IF page.extract.raises THEN <<>> ELSE page.extract.raw
        t    == clean_text(raw)
    IN  IF NeedsOcr(t)
        THEN IF page.ocr.raises
             THEN [kind |-> "raise", text |-> <<>>, ocr |-> TRUE]
             ELSE [kind |-> "ok", text |-> ocr_pdf_page(page), ocr |-> TRUE]
        ELSE [kind |-> "ok", text |-> t, ocr |-> FALSE]

\* the body of the for loop up to "if text": the text of the page, whether
\* ocr_pdf_page was called, and whether an exception leaves parse_pdf
PageOutcome(page) ==
    LET raw  == IF page.extract.raises THEN <<>> ELSE page.extract.raw
        t    == clean_text(raw)
    IN  IF NeedsOcr(t)
        THEN IF page.ocr.raises
             THEN [kind |-> "ok", text |-> <<>>, ocr |-> TRUE]    \* except Exception
             ELSE [kind |-> "ok", text |-> ocr_pdf_page(page), ocr |-> TRUE]
        ELSE [kind |-> "ok", text |-> t, ocr |-> FALSE]

InitPdf ==
    /\ ChunkIdle
    /\ IngestIdle
    /\ JobIdle
    /\ ShareIdle
    /\ pdf \in PdfDocuments
    /\ pidx = 0
    /\ pout = <<>>
    /\ pocr = {}
    /\ ppc = "call"

PdfFrame ==
    /\ UNCHANGED chunkVars
    /\ UNCHANGED ingestVars
    /\ UNCHANGED jobVars
    /\ UNCHANGED shareVars

\* out = [], reader = PdfReader(path), which raises on a file it cannot read
ParseCall ==
    /\ ppc = "call"
    /\ ppc' = (IF pdf.opens THEN "loop" ELSE "raised")
    /\ pidx' = 0
    /\ pout' = <<>>
    /\ UNCHANGED <<pdf, pocr>>
    /\ PdfFrame

\* one iteration of the for loop, with i = pidx
ParsePage ==
    /\ ppc = "loop"
    /\ pidx < Len(pdf.pages)
    /\ LET page_num == pidx + 1
           o        == PageOutcome(pdf.pages[page_num])
       IN  /\ pocr' = (IF o.ocr THEN pocr \cup {pidx} ELSE pocr)
           /\ IF o.kind = "raise"
              THEN /\ ppc' = "raised"
                   /\ UNCHANGED <<pidx, pout>>
              ELSE /\ pout' = (IF o.text # <<>>
                               THEN Append(pout, [text |-> o.text, page |-> page_num])
                               ELSE pout)
                   /\ pidx' = pidx + 1
                   /\ ppc' = "loop"
    /\ UNCHANGED pdf
    /\ PdfFrame

\* return out
ParseReturn ==
    /\ ppc = "loop"
    /\ pidx = Len(pdf.pages)
    /\ ppc' = "returned"
    /\ UNCHANGED <<pdf, pidx, pout, pocr>>
    /\ PdfFrame

NextPdf == ParseCall \/ ParsePage \/ ParseReturn

SpecPdf == InitPdf /\ [][NextPdf]_vars

(***************************************************************************)
(* Properties of parse_pdf                                                 *)
(***************************************************************************)
\* clean_text of the strings the libraries return, computed once
Normalised ==
    [t \in {x.raw : x \in ExtractResults \cup OcrResults} |-> clean_text(t)]

\* the normalised text extract_text gives for page n, empty when it raises
Extracted(n) ==
    IF pdf.pages[n].extract.raises THEN <<>>
    ELSE Normalised[pdf.pages[n].extract.raw]

\* the OCR of page n raises or yields nothing but whitespace
OcrFails(n) ==
    \/ pdf.pages[n].ocr.raises
    \/ Normalised[pdf.pages[n].ocr.raw] = <<>>

\* the page numbers of the page units emitted so far
EmittedPages == {pout[k].page : k \in 1..Len(pout)}

\* C12: OCR is invoked for exactly the pages whose normalised extracted
\* text has fewer than 30 characters; a page whose OCR raises or yields
\* nothing is left out and the loop goes on; every emitted page unit has a
\* non-empty text and its 1-based page index as page number, in strictly
\* increasing order.
C12_PdfPages ==
    /\ ppc = "raised" => ~pdf.opens
    /\ \A n \in 1..pidx :
          /\ ((n - 1) \in pocr) <=> (Len(Extracted(n)) < 30)
          /\ (n \in EmittedPages) <=> (Len(Extracted(n)) >= 30 \/ ~OcrFails(n))
    /\ \A k \in 1..Len(pout) :
          /\ pout[k].text # <<>>
          /\ pout[k].page \in 1..pidx
          /\ pout[k].text =
                (IF Len(Extracted(pout[k].page)) >= 30 THEN Extracted(pout[k].page)
                 ELSE Normalised[pdf.pages[pout[k].page].ocr.raw])
          /\ \A l \in 1..Len(pout) : k < l => pout[k].page < pout[l].page
    /\ ppc = "returned" => pidx = Len(pdf.pages)

C12_Witness ==
    /\ ppc = "returned"
    /\ Len(pdf.pages) = 3
    /\ pdf.pages[1].extract.raises /\ pdf.pages[1].ocr.raises
    /\ Len(Extracted(2)) = 10 /\ ~pdf.pages[2].ocr.raises /\ OcrFails(2)
    /\ Len(Extracted(3)) = 29 /\ ~OcrFails(3)
    /\ pocr = {0, 1, 2}
    /\ EmittedPages = {3}

====
